---- MODULE Spec2Model ----
(***************************************************************************)
(* Model of gpflow/conditionals/util.py: the Gaussian-process conditionals *)
(* base_conditional, independent_interdomain_conditional,                  *)
(* fully_correlated_conditional(_repeat) and expand_independent_outputs.   *)
(*                                                                         *)
(* The routines are pure functions over dense tensors.  A tensor is a      *)
(* record [shape, data] with the data in row-major order, so that          *)
(* tf.reshape keeps the data and tf.transpose permutes it, as in           *)
(* TensorFlow.  Numbers are exact rationals <<numerator, denominator>>;    *)
(* the inputs are chosen so that every Cholesky factor is rational.        *)
(*                                                                         *)
(* The file uses the TensorFlow 1.x API (tf.matrix_band_part,              *)
(* tf.random_normal), whose linear-algebra ops (triangular_solve, matmul)  *)
(* require operands of equal rank and equal batch dimensions and whose     *)
(* reshape requires an equal number of elements; an op applied outside     *)
(* these conditions raises, modelled as the tensor ErrT and reported by    *)
(* the routine as status "ShapeError".                                     *)
(***************************************************************************)
EXTENDS Integers, Sequences, FiniteSets, TLC

\* ------------------------------------------------------------ rationals

Abs(n) == IF n < 0 THEN -n ELSE n

RECURSIVE GCD(_, _)
GCD(a, b) == IF b = 0 THEN a ELSE GCD(b, a % b)

\* The rational n/d in lowest terms with a positive denominator.
RNorm(n, d) ==
    IF n = 0 THEN <<0, 1>>
    ELSE LET s == IF d < 0 THEN -1 ELSE 1
             g == GCD(Abs(n), Abs(d))
         IN  <<(s * n) \div g, (s * d) \div g>>

RInt(n) == <<n, 1>>
RZero == RInt(0)
RAdd(a, b) == RNorm(a[1] * b[2] + b[1] * a[2], a[2] * b[2])
RSub(a, b) == RNorm(a[1] * b[2] - b[1] * a[2], a[2] * b[2])
RMul(a, b) == RNorm(a[1] * b[1], a[2] * b[2])
RDiv(a, b) == RNorm(a[1] * b[2], a[2] * b[1])

\* The square root of a perfect square.  The root of any other integer is
\* irrational and has no value in this arithmetic: ISqrt is defined on the
\* perfect squares only, and the generated Kmm = Lm Lm^T keep every pivot of
\* the factorisation inside that domain.
ISqrt(n) == CHOOSE s \in 0..n : s * s = n
RSqrt(a) == RNorm(ISqrt(a[1]), ISqrt(a[2]))

RECURSIVE RSum(_)
RSum(s) == IF s = <<>> THEN RZero ELSE RAdd(s[1], RSum(Tail(s)))

\* -------------------------------------------------------------- tensors

RECURSIVE Prod(_)
Prod(s) == IF s = <<>> THEN 1 ELSE s[1] * Prod(Tail(s))

Rank(t) == Len(t.shape)
Stride(s, i) == Prod(SubSeq(s, i + 1, Len(s)))
\* Multi-index (0-based components) of the row-major offset k in shape s.
Unflat(k, s) == [i \in 1..Len(s) |-> (k \div Stride(s, i)) % s[i]]
RECURSIVE FlatFrom(_, _, _)
FlatFrom(idx, s, i) ==
    IF i > Len(s) THEN 0 ELSE idx[i] * Stride(s, i) + FlatFrom(idx, s, i + 1)
Flat(idx, s) == FlatFrom(idx, s, 1)
At(t, idx) == t.data[Flat(idx, t.shape) + 1]
\* The tensor of shape s whose entry at multi-index idx is F(idx), its data an
\* explicit sequence.
Build(s, F(_)) ==
    [shape |-> s, data |-> SubSeq([k \in 1..Prod(s) |-> F(Unflat(k - 1, s))], 1, Prod(s))]

\* A Python None argument, and the outcome of an op whose shape check fails.
NoneT == [shape |-> <<-1>>, data |-> <<>>]
ErrT == [shape |-> <<-2>>, data |-> <<>>]
IsNone(t) == t = NoneT
IsErr(t) == t = ErrT

\* tf.reshape: the data is kept, the element count must agree.
Reshape(t, s) ==
    IF IsErr(t) \/ Prod(s) # Prod(t.shape) THEN ErrT
    ELSE [shape |-> s, data |-> t.data]

\* tf.transpose(t, perm): output axis i is input axis perm[i] (axes 0-based).
Transpose(t, perm) ==
    IF IsErr(t) THEN ErrT
    ELSE LET r == Len(perm)
             s == [i \in 1..r |-> t.shape[perm[i] + 1]]
             inv(j) == CHOOSE i \in 1..r : perm[i] + 1 = j
         IN  Build(s, LAMBDA idx : At(t, [j \in 1..r |-> idx[inv(j)]]))

\* tf.transpose(t) without perm: all axes reversed.
TransposeAll(t) ==
    IF IsErr(t) THEN ErrT
    ELSE Transpose(t, [i \in 1..Rank(t) |-> Rank(t) - i])

\* tf.linalg.transpose: the last two axes swapped.
TransposeLast(t) ==
    IF IsErr(t) THEN ErrT
    ELSE LET r == Rank(t)
         IN  Transpose(t, [i \in 1..r |-> IF i = r - 1 THEN r - 1
                                          ELSE IF i = r THEN r - 2 ELSE i - 1])

\* tf.expand_dims(t, axis) for a negative axis (counted from the end of the result).
ExpandDimsNeg(t, back) ==
    IF IsErr(t) THEN ErrT
    ELSE LET r == Rank(t)
         IN  [shape |-> SubSeq(t.shape, 1, r - back + 1) \o <<1>> \o SubSeq(t.shape, r - back + 2, r),
              data |-> t.data]

\* t[None, ...]: a leading axis of size 1; t[..., None]: a trailing one.
ExpandFront(t) == IF IsErr(t) THEN ErrT ELSE [shape |-> <<1>> \o t.shape, data |-> t.data]
ExpandBack(t) == IF IsErr(t) THEN ErrT ELSE [shape |-> t.shape \o <<1>>, data |-> t.data]

\* t[0, ...]: the first slice along the leading axis.
Slice0(t) ==
    IF IsErr(t) THEN ErrT
    ELSE LET s == Tail(t.shape)
         IN  [shape |-> s, data |-> SubSeq(t.data, 1, Prod(s))]

\* NumPy-style broadcasting of two shapes (aligned at the trailing axes).
PadShape(s, r) == [i \in 1..r |-> IF i <= r - Len(s) THEN 1 ELSE s[i - (r - Len(s))]]
Max(a, b) == IF a > b THEN a ELSE b
BroadcastOK(sa, sb) ==
    LET r == Max(Len(sa), Len(sb))
        pa == PadShape(sa, r)
        pb == PadShape(sb, r)
    IN  \A i \in 1..r : pa[i] = pb[i] \/ pa[i] = 1 \/ pb[i] = 1
BroadcastShape(sa, sb) ==
    LET r == Max(Len(sa), Len(sb))
        pa == PadShape(sa, r)
        pb == PadShape(sb, r)
    IN  [i \in 1..r |-> Max(pa[i], pb[i])]
\* The entry of t that position idx of a broadcast result of rank Len(idx) reads.
BAt(t, idx) ==
    LET r == Len(idx)
        d == r - Rank(t)
    IN  At(t, [i \in 1..Rank(t) |-> IF t.shape[i] = 1 THEN 0 ELSE idx[i + d]])

\* tf.broadcast_to(t, s).
BroadcastTo(t, s) ==
    IF IsErr(t) \/ ~BroadcastOK(t.shape, s) \/ BroadcastShape(t.shape, s) # s THEN ErrT
    ELSE Build(s, LAMBDA idx : BAt(t, idx))

\* Elementwise binary ops with broadcasting: a + b, a - b, a * b.
TAdd(a, b) ==
    IF IsErr(a) \/ IsErr(b) \/ ~BroadcastOK(a.shape, b.shape) THEN ErrT
    ELSE Build(BroadcastShape(a.shape, b.shape), LAMBDA idx : RAdd(BAt(a, idx), BAt(b, idx)))
TSub(a, b) ==
    IF IsErr(a) \/ IsErr(b) \/ ~BroadcastOK(a.shape, b.shape) THEN ErrT
    ELSE Build(BroadcastShape(a.shape, b.shape), LAMBDA idx : RSub(BAt(a, idx), BAt(b, idx)))
TMul(a, b) ==
    IF IsErr(a) \/ IsErr(b) \/ ~BroadcastOK(a.shape, b.shape) THEN ErrT
    ELSE Build(BroadcastShape(a.shape, b.shape), LAMBDA idx : RMul(BAt(a, idx), BAt(b, idx)))
\* tf.square
Square(t) == IF IsErr(t) THEN ErrT ELSE Build(t.shape, LAMBDA idx : RMul(At(t, idx), At(t, idx)))

\* The axes (1-based) of a rank-r tensor inside / outside the 0-based set axes.
AxesIn(r, axes) == SelectSeq([i \in 1..r |-> i], LAMBDA i : (i - 1) \in axes)
AxesOut(r, axes) == SelectSeq([i \in 1..r |-> i], LAMBDA i : (i - 1) \notin axes)
PosIn(seq, j) == CHOOSE i \in 1..Len(seq) : seq[i] = j
\* The full index whose kept axes read kidx and whose other axes read ridx.
Merge(r, keep, kidx, red, ridx) ==
    [j \in 1..r |-> IF \E i \in 1..Len(keep) : keep[i] = j
                    THEN kidx[PosIn(keep, j)] ELSE ridx[PosIn(red, j)]]

\* tf.reduce_sum(t, axes): the axes in the set are summed away.
ReduceSum(t, axes) ==
    IF IsErr(t) THEN ErrT
    ELSE LET r == Rank(t)
             keep == AxesOut(r, axes)
             red == AxesIn(r, axes)
             ks == [i \in 1..Len(keep) |-> t.shape[keep[i]]]
             rs == [i \in 1..Len(red) |-> t.shape[red[i]]]
         IN  Build(ks, LAMBDA kidx :
                 RSum([k \in 1..Prod(rs) |-> At(t, Merge(r, keep, kidx, red, Unflat(k - 1, rs)))]))

\* tf.matmul(a, b, transpose_a, transpose_b): batched over equal leading axes.
MatMul(a0, b0, ta, tb) ==
    IF IsErr(a0) \/ IsErr(b0) THEN ErrT
    ELSE IF Rank(a0) < 2 \/ Rank(a0) # Rank(b0) THEN ErrT
    ELSE LET a == IF ta THEN TransposeLast(a0) ELSE a0
             b == IF tb THEN TransposeLast(b0) ELSE b0
             r == Rank(a)
             batch == SubSeq(a.shape, 1, r - 2)
         IN  IF batch # SubSeq(b.shape, 1, r - 2) \/ a.shape[r] # b.shape[r - 1] THEN ErrT
             ELSE Build(batch \o <<a.shape[r - 1], b.shape[r]>>, LAMBDA idx :
                    LET bi == SubSeq(idx, 1, r - 2)
                    IN  RSum([k \in 1..a.shape[r] |->
                              RMul(At(a, bi \o <<idx[r - 1], k - 1>>),
                                   At(b, bi \o <<k - 1, idx[r]>>))]))

\* tf.tensordot(a, b, [axa, axb]): a is transposed and reshaped to
\* [free, contracted] with the contracted axes in the order axa, b to
\* [contracted, free] with the contracted axes in the order axb, and the two
\* matrices are multiplied, so only the products of the contracted sizes must
\* agree; the free axes of a, then those of b, remain in their order.
Tensordot(a, b, axa, axb) ==
    IF IsErr(a) \/ IsErr(b) THEN ErrT
    ELSE LET n == Len(axa)
             ra == Rank(a)
             rb == Rank(b)
             ca == [i \in 1..n |-> axa[i] + 1]
             cb == [i \in 1..n |-> axb[i] + 1]
             fa == AxesOut(ra, {axa[i] : i \in 1..n})
             fb == AxesOut(rb, {axb[i] : i \in 1..n})
             csa == [i \in 1..n |-> a.shape[ca[i]]]
             csb == [i \in 1..n |-> b.shape[cb[i]]]
             fs == [i \in 1..Len(fa) |-> a.shape[fa[i]]] \o [i \in 1..Len(fb) |-> b.shape[fb[i]]]
         IN  IF Prod(csa) # Prod(csb) THEN ErrT
             ELSE Build(fs, LAMBDA idx :
                    LET ia == SubSeq(idx, 1, Len(fa))
                        ib == SubSeq(idx, Len(fa) + 1, Len(idx))
                    IN  RSum([k \in 1..Prod(csa) |->
                              RMul(At(a, Merge(ra, fa, ia, ca, Unflat(k - 1, csa))),
                                   At(b, Merge(rb, fb, ib, cb, Unflat(k - 1, csb))))]))

\* Entry (i, j), i >= j, of the Cholesky factor of the matrix at batch index b of K
\* (Cholesky-Banachiewicz: row by row, the square root on the diagonal).
RECURSIVE CholEntry(_, _, _, _)
CholEntry(K, b, i, j) ==
    LET s == RSum([k \in 1..j |-> RMul(CholEntry(K, b, i, k - 1), CholEntry(K, b, j, k - 1))])
        d == RSub(At(K, b \o <<i, j>>), s)
    IN  IF i = j THEN RSqrt(d) ELSE RDiv(d, CholEntry(K, b, j, j))

\* tf.linalg.cholesky: the lower-triangular factor of each trailing square matrix.
Cholesky(K) ==
    IF IsErr(K) THEN ErrT
    ELSE LET r == Rank(K)
         IN  IF r < 2 \/ K.shape[r] # K.shape[r - 1] THEN ErrT
             ELSE Build(K.shape, LAMBDA idx :
                    IF idx[r] > idx[r - 1] THEN RZero
                    ELSE CholEntry(K, SubSeq(idx, 1, r - 2), idx[r - 1], idx[r]))

\* Entry (i, c) of the solution X of T X = B for the matrices at batch index b;
\* only the lower (upper) triangle of T is read.
RECURSIVE SolveEntry(_, _, _, _, _, _)
SolveEntry(T, B, b, i, c, lower) ==
    LET m == T.shape[Len(T.shape)]
        ks == IF lower THEN [k \in 1..i |-> k - 1] ELSE [k \in 1..(m - 1 - i) |-> i + k]
        s == RSum([k \in 1..Len(ks) |->
                   RMul(At(T, b \o <<i, ks[k]>>), SolveEntry(T, B, b, ks[k], c, lower))])
    IN  RDiv(RSub(At(B, b \o <<i, c>>), s), At(T, b \o <<i, i>>))

\* tf.linalg.triangular_solve(matrix, rhs, lower): forward (lower) or backward
\* substitution, batched; matrix and rhs must agree in rank, batch axes and rows.
TriangularSolve(T, B, lower) ==
    IF IsErr(T) \/ IsErr(B) THEN ErrT
    ELSE LET r == Rank(T)
         IN  IF r < 2 \/ Rank(B) # r THEN ErrT
             ELSE IF T.shape[r] # T.shape[r - 1]
                     \/ SubSeq(T.shape, 1, r - 2) # SubSeq(B.shape, 1, r - 2)
                     \/ T.shape[r - 1] # B.shape[r - 1] THEN ErrT
             ELSE Build(B.shape, LAMBDA idx :
                    SolveEntry(T, B, SubSeq(idx, 1, r - 2), idx[r - 1], idx[r], lower))

\* tf.matrix_band_part(t, -1, 0): the lower triangle of each trailing matrix,
\* zero above the diagonal; the input must have rank at least 2.
BandPartLower(t) ==
    IF IsErr(t) \/ Rank(t) < 2 THEN ErrT
    ELSE LET r == Rank(t)
         IN  Build(t.shape, LAMBDA idx : IF idx[r] > idx[r - 1] THEN RZero ELSE At(t, idx))

\* tf.tile(t, multiples).
Tile(t, mult) ==
    IF IsErr(t) \/ Len(mult) # Rank(t) THEN ErrT
    ELSE Build([i \in 1..Rank(t) |-> t.shape[i] * mult[i]],
               LAMBDA idx : At(t, [i \in 1..Rank(t) |-> idx[i] % t.shape[i]]))

\* tf.linalg.diag(t): the last axis becomes the diagonal of a square matrix.
Diag(t) ==
    IF IsErr(t) THEN ErrT
    ELSE LET r == Rank(t)
         IN  Build(t.shape \o <<t.shape[r]>>, LAMBDA idx :
                IF idx[r] = idx[r + 1] THEN At(t, SubSeq(idx, 1, r)) ELSE RZero)

\* ------------------------------------------------------------- outcomes

\* A call either returns the pair (mean, variance) or raises.
Ok(mean, var) == [status |-> "ok", msg |-> <<>>, mean |-> mean, var |-> var]
Raise(kind, msg) == [status |-> kind, msg |-> msg, mean |-> NoneT, var |-> NoneT]
\* The pair is returned unless one of the TensorFlow ops that built it raised.
Return(mean, var) ==
    IF IsErr(mean) \/ IsErr(var) THEN Raise("ShapeError", <<>>) ELSE Ok(mean, var)

\* ------------------------------------------------------ base_conditional

\* Kmn with its leading dims moved to the front: [M, ..., N] -> [..., M, N].
base_permute(Kmn) ==
    LET r == Rank(Kmn)
    IN  Transpose(Kmn, [i \in 1..r |-> IF i <= r - 2 THEN i ELSE IF i = r - 1 THEN 0 ELSE r - 1])

\* The covariance due to the conditioning, from the whitened projection A.
base_fvar(Knn, A, full_cov, leading, num_func, N) ==
    IF full_cov
    THEN BroadcastTo(ExpandDimsNeg(TSub(Knn, MatMul(A, A, TRUE, FALSE)), 3),
                     leading \o <<num_func, N, N>>)
    ELSE BroadcastTo(ExpandDimsNeg(TSub(Knn, ReduceSum(Square(A), {Rank(A) - 2})), 2),
                     leading \o <<num_func, N>>)

\* Faulty variant of base_backsub: the solve against Lm itself instead of its transpose.
base_backsub_untransposed(Lm, A) == TriangularSolve(Lm, A, TRUE)

\* The back-substitution of the unwhitened case: A <- Lm^-T A.
base_backsub(Lm, A) == TriangularSolve(TransposeLast(Lm), A, FALSE)

\* LTA = q_sqrt^T A for a diagonal (rank 2) or a full (rank 3) factor.
base_LTA(A, q_sqrt, leading, num_func, M, N) ==
    IF Rank(q_sqrt) = 2
    THEN TMul(A, ExpandBack(TransposeAll(q_sqrt)))
    ELSE MatMul(BroadcastTo(q_sqrt, leading \o q_sqrt.shape),
                BroadcastTo(ExpandDimsNeg(A, 3), leading \o <<num_func, M, N>>),
                TRUE, FALSE)

base_conditional(Kmn0, Kmm, Knn, function, full_cov, q_sqrt, white) ==
    LET num_func == function.shape[2]
        N == Kmn0.shape[Rank(Kmn0)]
        M == function.shape[1]
        Kmn == base_permute(Kmn0)
        leading == SubSeq(Kmn.shape, 1, Rank(Kmn) - 2)
        Lm0 == Cholesky(Kmm)
        Lm == BroadcastTo(Lm0, leading \o Lm0.shape)
        A0 == TriangularSolve(Lm, Kmn, TRUE)
        fvar0 == base_fvar(Knn, A0, full_cov, leading, num_func, N)
        A == IF ~white THEN base_backsub(Lm, A0) ELSE A0
        f == BroadcastTo(function, leading \o <<M, num_func>>)
        fmean == MatMul(A, f, TRUE, FALSE)
    IN  IF IsErr(fvar0) \/ IsErr(fmean) THEN Raise("ShapeError", <<>>)
        ELSE IF IsNone(q_sqrt) THEN
            Return(fmean, IF full_cov THEN fvar0 ELSE TransposeLast(fvar0))
        ELSE IF Rank(q_sqrt) \notin {2, 3} THEN
            Raise("ValueError", <<"Bad dimension for q_sqrt: ", Rank(q_sqrt)>>)
        ELSE
            LET LTA == base_LTA(A, q_sqrt, leading, num_func, M, N)
                fvar == IF full_cov THEN TAdd(fvar0, MatMul(LTA, LTA, TRUE, FALSE))
                        ELSE TAdd(fvar0, ReduceSum(Square(LTA), {Rank(LTA) - 2}))
            IN  Return(fmean, IF full_cov THEN fvar ELSE TransposeLast(fvar))

\* ------------------------------------ independent_interdomain_conditional

\* The covariance due to the conditioning, one contraction per flag pair.
\* A is [L, M, N*P] and Ar is A reshaped to [L, M, N, P].
iic_fvar(Knn, A, Ar, full_cov, full_output_cov, L, M, N, P) ==
    IF full_cov /\ full_output_cov THEN
        TSub(Knn, Tensordot(Ar, Ar, <<0, 1>>, <<0, 1>>))
    ELSE IF full_cov THEN
        LET Atr == Reshape(TransposeAll(Ar), <<P, N, M * L>>)
        IN  TSub(Knn, MatMul(Atr, Atr, FALSE, TRUE))
    ELSE IF full_output_cov THEN
        LET Atr == Reshape(Transpose(Ar, <<2, 3, 1, 0>>), <<N, P, M * L>>)
        IN  TSub(Knn, MatMul(Atr, Atr, FALSE, TRUE))
    ELSE
        TSub(Knn, Reshape(ReduceSum(Square(A), {0, 1}), <<N, P>>))

\* The back-substitution of the unwhitened case, as written: a lower-triangular
\* solve of Lm [L, M, M] against the rank-4 tensor Ar [L, M, N, P].
iic_backsub(Lm, Ar) == TriangularSolve(Lm, Ar, TRUE)

\* LTA for a rank-3 q_sqrt (its lower triangle) or, for any other rank, the
\* elementwise product with the transposed q_sqrt.
iic_LTA(A, q_sqrt) ==
    IF Rank(q_sqrt) = 3
    THEN MatMul(BandPartLower(q_sqrt), A, TRUE, FALSE)
    ELSE TMul(A, ExpandBack(TransposeAll(q_sqrt)))

\* The covariance added by q_sqrt, one contraction per flag pair.
iic_addvar(fvar, LTA, full_cov, full_output_cov, L, M, N, P) ==
    IF full_cov /\ full_output_cov THEN
        LET LTAr == Reshape(LTA, <<L * M, N * P>>)
        IN  TAdd(fvar, Reshape(MatMul(LTAr, LTAr, TRUE, FALSE), <<N, P, N, P>>))
    ELSE IF full_cov THEN
        LET LTAr == Transpose(Reshape(LTA, <<L * M, N, P>>), <<2, 0, 1>>)
        IN  TAdd(fvar, MatMul(LTAr, LTAr, TRUE, FALSE))
    ELSE IF full_output_cov THEN
        LET LTAr == Transpose(Reshape(LTA, <<L * M, N, P>>), <<1, 0, 2>>)
        IN  TAdd(fvar, MatMul(LTAr, LTAr, TRUE, FALSE))
    ELSE
        TAdd(fvar, Reshape(ReduceSum(Square(LTA), {0, 1}), <<N, P>>))

independent_interdomain_conditional(Kmn0, Kmm, Knn, f, full_cov, full_output_cov, q_sqrt, white) ==
    LET M == Kmn0.shape[1]
        L == Kmn0.shape[2]
        N == Kmn0.shape[3]
        P == Kmn0.shape[4]
        Lm == Cholesky(Kmm)
        Kmn == Reshape(Transpose(Kmn0, <<1, 0, 2, 3>>), <<L, M, N * P>>)
        A0 == TriangularSolve(Lm, Kmn, TRUE)
        Ar0 == Reshape(A0, <<L, M, N, P>>)
        fvar0 == iic_fvar(Knn, A0, Ar0, full_cov, full_output_cov, L, M, N, P)
        A == IF ~white THEN iic_backsub(Lm, Ar0) ELSE A0
        Ar == IF ~white THEN Reshape(A, <<L, M, N, P>>) ELSE Ar0
        fmean == Tensordot(Ar, f, <<1, 0>>, <<0, 1>>)
    IN  IF IsErr(fvar0) THEN Raise("ShapeError", <<"fvar">>)
        ELSE IF IsErr(A) THEN Raise("ShapeError", <<"triangular_solve">>)
        ELSE IF IsErr(fmean) THEN Raise("ShapeError", <<"fmean">>)
        ELSE IF IsNone(q_sqrt) THEN Ok(fmean, fvar0)
        ELSE LET fvar == iic_addvar(fvar0, iic_LTA(A, q_sqrt), full_cov, full_output_cov, L, M, N, P)
             IN  IF IsErr(fvar) THEN Raise("ShapeError", <<"q_sqrt">>) ELSE Ok(fmean, fvar)

\* ------------------------------------ fully_correlated_conditional_repeat

\* The covariance due to the conditioning, one contraction per flag pair.
\* A is [M, N*K] and Ar is A reshaped to [M, N, K].
fcr_fvar(Knn, A, Ar, full_cov, full_output_cov, N, K) ==
    IF full_cov /\ full_output_cov THEN
        TSub(Knn, Tensordot(Ar, Ar, <<0>>, <<0>>))
    ELSE IF full_cov THEN
        LET Atr == TransposeAll(Ar)
        IN  TSub(Knn, MatMul(Atr, Atr, FALSE, TRUE))
    ELSE IF full_output_cov THEN
        LET Atr == Transpose(Ar, <<1, 0, 2>>)
        IN  TSub(Knn, MatMul(Atr, Atr, TRUE, FALSE))
    ELSE
        TSub(Knn, Reshape(ReduceSum(Square(A), {0, 1}), <<N, K>>))

\* Faulty variant of fcr_Lf: q_sqrt used as given, its upper triangle included.
fcr_Lf_unmasked(q_sqrt) == IF Rank(q_sqrt) < 2 THEN ErrT ELSE q_sqrt

\* The lower-triangular part of q_sqrt.
fcr_Lf(q_sqrt) == BandPartLower(q_sqrt)

\* The covariance added by a rank-3 q_sqrt, one contraction per flag pair.
fcr_addvar(fvar, LTA, full_cov, full_output_cov, R, M, N, K) ==
    IF full_cov /\ full_output_cov THEN
        LET addvar == MatMul(LTA, LTA, TRUE, FALSE)
        IN  TAdd(ExpandFront(fvar), Reshape(addvar, <<R, N, K, N, K>>))
    ELSE IF full_cov THEN
        LET LTAr == Transpose(Reshape(LTA, <<R, M, N, K>>), <<0, 3, 1, 2>>)
        IN  TAdd(ExpandFront(fvar), MatMul(LTAr, LTAr, TRUE, FALSE))
    ELSE IF full_output_cov THEN
        LET LTAr == Transpose(Reshape(LTA, <<R, M, N, K>>), <<0, 2, 3, 1>>)
        IN  TAdd(ExpandFront(fvar), MatMul(LTAr, LTAr, FALSE, TRUE))
    ELSE
        TAdd(ExpandFront(fvar), Reshape(ReduceSum(Square(LTA), {1}), <<R, N, K>>))

fully_correlated_conditional_repeat(Kmn0, Kmm, Knn, f, full_cov, full_output_cov, q_sqrt, white) ==
    LET R == f.shape[2]
        M == Kmn0.shape[1]
        N == Kmn0.shape[2]
        K == Kmn0.shape[3]
        Lm == Cholesky(Kmm)
        Kmn == Reshape(Kmn0, <<M, N * K>>)
        A == TriangularSolve(Lm, Kmn, TRUE)
        Ar == Reshape(A, <<M, N, K>>)
        fvar0 == fcr_fvar(Knn, A, Ar, full_cov, full_output_cov, N, K)
        fmean == Reshape(MatMul(f, A, TRUE, FALSE), <<R, N, K>>)
    IN  IF IsErr(fvar0) THEN Raise("ShapeError", <<"fvar">>)
        ELSE IF ~white THEN Raise("NotImplementedError", <<"Need to verify this.">>)
        ELSE IF IsErr(fmean) THEN Raise("ShapeError", <<"fmean">>)
        ELSE IF IsNone(q_sqrt) THEN Ok(fmean, fvar0)
        ELSE IF IsErr(fcr_Lf(q_sqrt)) THEN Raise("ShapeError", <<"matrix_band_part">>)
        ELSE IF Rank(q_sqrt) = 2 THEN
            Raise("NotImplementedError", <<"Does not support diagonal q_sqrt yet...">>)
        ELSE IF Rank(q_sqrt) # 3 THEN
            Raise("ValueError", <<"Bad dimension for q_sqrt: ", Rank(q_sqrt)>>)
        ELSE
            LET A_tiled == Tile(ExpandFront(A), <<R, 1, 1>>)
                LTA == MatMul(fcr_Lf(q_sqrt), A_tiled, TRUE, FALSE)
                fvar == fcr_addvar(fvar0, LTA, full_cov, full_output_cov, R, M, N, K)
            IN  IF IsErr(fvar) THEN Raise("ShapeError", <<"q_sqrt">>) ELSE Ok(fmean, fvar)

\* The non-repeated variant: the repeat result with m[0, ...] and v[0, ...].
fully_correlated_conditional(Kmn, Kmm, Knn, f, full_cov, full_output_cov, q_sqrt, white) ==
    LET r == fully_correlated_conditional_repeat(Kmn, Kmm, Knn, f, full_cov,
                                                 full_output_cov, q_sqrt, white)
    IN  IF r.status # "ok" THEN r ELSE Ok(Slice0(r.mean), Slice0(r.var))

\* --------------------------------------------- expand_independent_outputs

\* Faulty variant of expand_perm: the axes left as tf.linalg.diag produced them.
expand_perm_identity == <<0, 1, 2, 3>>

\* The permutation applied to the N x N x P x P diagonal embedding.
expand_perm == <<0, 2, 1, 3>>

expand_independent_outputs(fvar, full_cov, full_output_cov) ==
    IF full_cov /\ full_output_cov THEN Transpose(Diag(TransposeAll(fvar)), expand_perm)
    ELSE IF ~full_cov /\ full_output_cov THEN Diag(fvar)
    ELSE fvar

\* --------------------------------------------------------------- inputs

\* Bounds of the checked input space.
MaxM == 2
MaxN == 2
MaxP == 2
NumSeeds == 2

\* Deterministic families of small integer tensors, indexed by a seed.
Val(seed, k) == ((seed * seed + 3 * seed * k + k * k + 2 * k + seed) % 7) - 3
GenT(s, seed) == Build(s, LAMBDA idx : RInt(Val(seed, Flat(idx, s) + 1)))
\* A lower-triangular factor with diagonal entries in {1, 2}, and the positive
\* definite matrix it factors.
GenChol(M, seed) ==
    Build(<<M, M>>, LAMBDA idx :
        IF idx[2] > idx[1] THEN RZero
        ELSE IF idx[2] = idx[1] THEN RInt(1 + ((seed + idx[1]) % 2))
        ELSE RInt(Val(seed, idx[1] * M + idx[2])))
GenKmm(M, seed) == MatMul(GenChol(M, seed), GenChol(M, seed), FALSE, TRUE)
\* q_sqrt of the given rank (0: None) for M inducing values and R replicas.
GenQ(rank, M, R, seed) ==
    CASE rank = 0 -> NoneT
      [] rank = 1 -> GenT(<<M>>, seed + 1)
      [] rank = 2 -> GenT(<<M, R>>, seed + 1)
      [] rank = 3 -> GenT(<<R, M, M>>, seed + 1)
      [] rank = 4 -> GenT(<<1, 1, 1, 1>>, seed + 1)

Seeds == 0..(NumSeeds - 1)
QRanks == 0..4
LeadDims == {<<>>, <<2>>}

BaseInputs(fn) ==
    { [fn |-> fn,
       Kmn |-> GenT(<<M>> \o lead \o <<N>>, seed),
       Kmm |-> GenKmm(M, seed),
       Knn |-> GenT(IF fc THEN <<N, N>> ELSE <<N>>, seed + 2),
       f |-> GenT(<<M, R>>, seed + 3),
       q_sqrt |-> GenQ(qr, M, R, seed),
       full_cov |-> fc, full_output_cov |-> FALSE, white |-> w] :
      M \in 1..MaxM, N \in 1..MaxN, R \in 1..MaxP, lead \in LeadDims,
      fc \in BOOLEAN, w \in BOOLEAN, qr \in QRanks, seed \in Seeds }

\* One positive definite matrix per latent process: [L, M, M].
RECURSIVE GenKmmData(_, _, _)
GenKmmData(L, M, seed) ==
    IF L = 0 THEN <<>> ELSE GenKmmData(L - 1, M, seed) \o GenKmm(M, seed + L - 1).data
GenKmmBatch(L, M, seed) == [shape |-> <<L, M, M>>, data |-> GenKmmData(L, M, seed)]

\* The shape of Knn, and of the documented variance, for each flag pair.
VarShape(fc, foc, N, P) ==
    IF fc /\ foc THEN <<N, P, N, P>>
    ELSE IF fc THEN <<P, N, N>>
    ELSE IF foc THEN <<N, P, P>>
    ELSE <<N, P>>

IicInputs(fn) ==
    { [fn |-> fn,
       Kmn |-> GenT(<<M, L, N, P>>, seed),
       Kmm |-> GenKmmBatch(L, M, seed),
       Knn |-> GenT(VarShape(fc, foc, N, P), seed + 2),
       f |-> GenT(<<M, L>>, seed + 3),
       q_sqrt |-> GenQ(qr, M, L, seed),
       full_cov |-> fc, full_output_cov |-> foc, white |-> w] :
      M \in 1..MaxM, L \in 1..MaxP, N \in 1..MaxN, P \in 1..MaxP,
      fc \in BOOLEAN, foc \in BOOLEAN, w \in BOOLEAN, qr \in QRanks, seed \in Seeds }

\* Rs: the replica counts R of f (M x R) and q_sqrt.
FcInputs(fn, Rs) ==
    { [fn |-> fn,
       Kmn |-> GenT(<<M, N, K>>, seed),
       Kmm |-> GenKmm(M, seed),
       Knn |-> GenT(VarShape(fc, foc, N, K), seed + 2),
       f |-> GenT(<<M, R>>, seed + 3),
       q_sqrt |-> GenQ(qr, M, R, seed),
       full_cov |-> fc, full_output_cov |-> foc, white |-> w] :
      M \in 1..MaxM, N \in 1..MaxN, K \in 1..MaxP, R \in Rs,
      fc \in BOOLEAN, foc \in BOOLEAN, w \in BOOLEAN, qr \in QRanks, seed \in Seeds }

\* expand_independent_outputs reads only fvar (kept in the Knn field) and the flags.
ExpandSeeds == 0..(4 * NumSeeds - 1)
ExpandInputs(fn) ==
    { [fn |-> fn,
       Kmn |-> NoneT, Kmm |-> NoneT,
       Knn |-> GenT(IF fc THEN <<P, N, N>> ELSE <<N, P>>, seed),
       f |-> NoneT, q_sqrt |-> NoneT,
       full_cov |-> fc, full_output_cov |-> foc, white |-> FALSE] :
      N \in 1..MaxN, P \in 1..MaxP, fc \in BOOLEAN, foc \in BOOLEAN, seed \in ExpandSeeds }

\* -------------------------------------------------------- state machine

\* call: the function called and its arguments; out: what the call produced;
\* pc: "call" before the call, "done" after it.
VARIABLES pc, call, out

vars == <<pc, call, out>>

NoOut == Raise("none", <<>>)

InitWith(inputs) ==
    /\ pc = "call"
    /\ call \in inputs
    /\ out = NoOut

Finish(result) ==
    /\ pc = "call"
    /\ out' = result
    /\ pc' = "done"
    /\ UNCHANGED call

Call_base_conditional ==
    /\ call.fn = "base_conditional"
    /\ Finish(base_conditional(call.Kmn, call.Kmm, call.Knn, call.f,
                               call.full_cov, call.q_sqrt, call.white))

Call_independent_interdomain_conditional ==
    /\ call.fn = "independent_interdomain_conditional"
    /\ Finish(independent_interdomain_conditional(call.Kmn, call.Kmm, call.Knn, call.f,
                  call.full_cov, call.full_output_cov, call.q_sqrt, call.white))

Call_fully_correlated_conditional ==
    /\ call.fn = "fully_correlated_conditional"
    /\ Finish(fully_correlated_conditional(call.Kmn, call.Kmm, call.Knn, call.f,
                  call.full_cov, call.full_output_cov, call.q_sqrt, call.white))

Call_fully_correlated_conditional_repeat ==
    /\ call.fn = "fully_correlated_conditional_repeat"
    /\ Finish(fully_correlated_conditional_repeat(call.Kmn, call.Kmm, call.Knn, call.f,
                  call.full_cov, call.full_output_cov, call.q_sqrt, call.white))

Call_expand_independent_outputs ==
    /\ call.fn = "expand_independent_outputs"
    /\ Finish(LET v == expand_independent_outputs(call.Knn, call.full_cov, call.full_output_cov)
              IN  Return(NoneT, v))

\* Calls of base_conditional.
InitBase == InitWith(BaseInputs("base_conditional"))
NextBase == Call_base_conditional
SpecBase == InitBase /\ [][NextBase]_vars

\* Calls of independent_interdomain_conditional.
InitIic == InitWith(IicInputs("independent_interdomain_conditional"))
NextIic == Call_independent_interdomain_conditional
SpecIic == InitIic /\ [][NextIic]_vars

\* Calls of fully_correlated_conditional (f: M x 1, q_sqrt: 1 x M x M, as
\* documented) and of fully_correlated_conditional_repeat (R replicas).
InitFc ==
    InitWith(FcInputs("fully_correlated_conditional", {1})
             \cup FcInputs("fully_correlated_conditional_repeat", 1..MaxP))
NextFc ==
    \/ Call_fully_correlated_conditional
    \/ Call_fully_correlated_conditional_repeat
SpecFc == InitFc /\ [][NextFc]_vars

\* Calls of expand_independent_outputs.
InitExpand == InitWith(ExpandInputs("expand_independent_outputs"))
NextExpand == Call_expand_independent_outputs
SpecExpand == InitExpand /\ [][NextExpand]_vars

\* --------------------------------------------------------------- claims

FcFns == {"fully_correlated_conditional", "fully_correlated_conditional_repeat"}
Conditionals == FcFns \cup {"base_conditional", "independent_interdomain_conditional"}
Returned == pc = "done" /\ out.status = "ok"
HasQ == ~IsNone(call.q_sqrt)
QRank == Rank(call.q_sqrt)
MsgUnwhitened == <<"Need to verify this.">>
MsgDiagonal == <<"Does not support diagonal q_sqrt yet...">>
MsgBadRank == <<"Bad dimension for q_sqrt: ", QRank>>

\* C1: every call of fully_correlated_conditional(_repeat) with white=False
\* ends in NotImplementedError("Need to verify this."), whatever the flags,
\* the shape and q_sqrt, and no other error is raised first.
C1_UnwhitenedNotSupported ==
    (pc = "done" /\ call.fn \in FcFns /\ ~call.white)
        => (out.status = "NotImplementedError" /\ out.msg = MsgUnwhitened)

\* C2: every conditional called with a q_sqrt of rank other than 2 and 3
\* raises ValueError("Bad dimension for q_sqrt: <rank>") and returns nothing,
\* whatever full_cov, full_output_cov and white.
C2_BadRankRejected ==
    (pc = "done" /\ call.fn \in Conditionals /\ HasQ /\ QRank \notin {2, 3})
        => (out.status = "ValueError" /\ out.msg = MsgBadRank)

\* C3: with white=True and q_sqrt absent or of rank 3, the R=1 call of
\* fully_correlated_conditional returns the result of
\* fully_correlated_conditional_repeat without its leading replica axis: mean
\* N x P, variance of the documented shape for the flag pair, and the repeat
\* variant returns these shapes prefixed by R.
C3_NonRepeatedIsRepeatDropped ==
    (pc = "done" /\ call.fn = "fully_correlated_conditional" /\ call.white
        /\ call.f.shape[2] = 1 /\ (HasQ => QRank = 3))
        => LET N == call.Kmn.shape[2]
               P == call.Kmn.shape[3]
               rep == fully_correlated_conditional_repeat(call.Kmn, call.Kmm, call.Knn,
                          call.f, call.full_cov, call.full_output_cov, call.q_sqrt, call.white)
               doc == VarShape(call.full_cov, call.full_output_cov, N, P)
           IN  /\ out.status = "ok"
               /\ rep.status = "ok"
               /\ rep.mean.shape = <<1, N, P>>
               /\ rep.var.shape = <<1>> \o doc
               /\ out.mean.shape = <<N, P>>
               /\ out.var.shape = doc
               /\ out.mean.data = rep.mean.data
               /\ out.var.data = rep.var.data

\* The base_conditional call equivalent to a single-output (L = 1, P = 1)
\* interdomain call: Kmn as M x N, Kmm as M x M, Knn as N x N or N, and the
\* lower-triangular factor of q_sqrt.
BaseOfIic ==
    LET M == call.Kmn.shape[1]
        N == call.Kmn.shape[3]
    IN  base_conditional(Reshape(call.Kmn, <<M, N>>), Slice0(call.Kmm),
            Reshape(call.Knn, IF call.full_cov THEN <<N, N>> ELSE <<N>>),
            call.f, call.full_cov,
            IF HasQ THEN BandPartLower(call.q_sqrt) ELSE NoneT, call.white)

\* C4: with L = 1 and P = 1, independent_interdomain_conditional (whitened and
\* unwhitened) returns the mean and variance entries base_conditional returns
\* for the equivalent inputs, for q_sqrt absent or a rank 3 factor.
C4_SingleOutputMatchesBase ==
    (pc = "done" /\ call.fn = "independent_interdomain_conditional"
        /\ call.Kmn.shape[2] = 1 /\ call.Kmn.shape[4] = 1 /\ (HasQ => QRank = 3))
        => /\ out.status = "ok"
           /\ BaseOfIic.status = "ok"
           /\ out.mean.data = BaseOfIic.mean.data
           /\ out.var.data = BaseOfIic.var.data

\* The whitened form of the current unwhitened base_conditional call:
\* function Lm^-1 f and q_sqrt Lm^-1 S per replica, white=True.
WhitenedCall ==
    LET Lm == Cholesky(call.Kmm)
        fw == TriangularSolve(Lm, call.f, TRUE)
        qw == IF HasQ THEN TriangularSolve(BroadcastTo(Lm, call.q_sqrt.shape), call.q_sqrt, TRUE)
              ELSE NoneT
    IN  base_conditional(call.Kmn, call.Kmm, call.Knn, fw, call.full_cov, qw, TRUE)

\* C5: base_conditional with white=False on (f, S) returns the mean and the
\* variance it returns with white=True on (Lm^-1 f, Lm^-1 S), for full_cov
\* True and False and for S of rank 3 or absent.
C5_WhiteningEquivalence ==
    (pc = "done" /\ call.fn = "base_conditional" /\ ~call.white /\ (HasQ => QRank = 3))
        => (out.status = "ok" /\ out = WhitenedCall)

\* C5 witness: an unwhitened call with a rank 3 q_sqrt and a non-diagonal Kmm
\* has returned, and its result differs from the one white=True gives on the
\* same (untransformed) arguments.
C5_Witness ==
    /\ Returned /\ call.fn = "base_conditional" /\ ~call.white
    /\ HasQ /\ QRank = 3 /\ call.full_cov
    /\ call.Kmm.shape = <<2, 2>> /\ call.Kmm.data[2] # RZero
    /\ out # base_conditional(call.Kmn, call.Kmm, call.Knn, call.f, call.full_cov,
                              call.q_sqrt, TRUE)

\* C6: fully_correlated_conditional(_repeat) with white=True and a rank 2
\* q_sqrt returns nothing and raises the "diagonal q_sqrt" not-supported
\* error, distinct from the unwhitened and the bad-rank errors, for every
\* flag pair.
C6_DiagonalNotSupported ==
    (pc = "done" /\ call.fn \in FcFns /\ call.white /\ HasQ /\ QRank = 2)
        => /\ out.status = "NotImplementedError"
           /\ out.msg = MsgDiagonal
           /\ <<out.status, out.msg>> # <<"NotImplementedError", MsgUnwhitened>>
           /\ <<out.status, out.msg>> # <<"ValueError", MsgBadRank>>

\* The entry the expanded variance holds at idx when output block p of the
\* input is laid out with its rows at position first and its columns at
\* position second of the index.
ExpandEntry(idx, first, second) ==
    IF call.full_cov
    THEN IF idx[2] # idx[4] THEN RZero
         ELSE At(call.Knn, <<idx[2], idx[first], idx[second]>>)
    ELSE IF idx[2] # idx[3] THEN RZero
         ELSE At(call.Knn, <<idx[1], idx[2]>>)

ExpandLayout(first, second) ==
    LET N == IF call.full_cov THEN call.Knn.shape[2] ELSE call.Knn.shape[1]
        P == IF call.full_cov THEN call.Knn.shape[1] ELSE call.Knn.shape[2]
        s == VarShape(call.full_cov, call.full_output_cov, N, P)
    IN  /\ out.status = "ok"
        /\ out.var.shape = s
        /\ ~call.full_output_cov => out.var = call.Knn
        /\ call.full_output_cov =>
               \A k \in 1..Prod(s) :
                   out.var.data[k] = ExpandEntry(Unflat(k - 1, s), first, second)

\* C7 as stated: the output has the documented shape, is the input when
\* full_output_cov is False, and otherwise is zero off the output diagonal and
\* holds fvar[n, p], respectively fvar[p, n, n'] at position [n, p, n', p].
C7_Original ==
    (pc = "done" /\ call.fn = "expand_independent_outputs") => ExpandLayout(1, 3)

\* C7 amended: as C7, except that with both flags position [n, p, n', p]
\* holds fvar[p, n', n]: each output's N x N block appears transposed.
C7_ExpandIsRelayout ==
    (pc = "done" /\ call.fn = "expand_independent_outputs") => ExpandLayout(3, 1)

\* C7 witness: both flags set, and an input block that is not symmetric.
C7_Witness ==
    /\ Returned /\ call.fn = "expand_independent_outputs"
    /\ call.full_cov /\ call.full_output_cov
    /\ call.Knn.shape = <<2, 2, 2>>
    /\ At(call.Knn, <<1, 0, 1>>) # At(call.Knn, <<1, 1, 0>>)

\* C8: in fully_correlated_conditional_repeat with white=True and neither
\* flag, the base variance is the N x K tensor Knn[n, k] - sum_m A[m, n, k]^2
\* with A = Lm^-1 Kmn reshaped to M x N x K, for every M, N, K >= 1.
C8_DiagonalBaseVariance ==
    (pc = "done" /\ call.fn = "fully_correlated_conditional_repeat" /\ call.white
        /\ ~call.full_cov /\ ~call.full_output_cov /\ ~HasQ)
        => LET M == call.Kmn.shape[1]
               N == call.Kmn.shape[2]
               K == call.Kmn.shape[3]
               Ar == Reshape(TriangularSolve(Cholesky(call.Kmm),
                             Reshape(call.Kmn, <<M, N * K>>), TRUE), <<M, N, K>>)
           IN  /\ out.status = "ok"
               /\ out.var = Build(<<N, K>>, LAMBDA idx :
                      RSub(At(call.Knn, idx),
                           RSum([m \in 1..M |->
                                 RMul(At(Ar, <<m - 1>> \o idx), At(Ar, <<m - 1>> \o idx))])))

\* C9: in independent_interdomain_conditional with white=False the unwhitened
\* correction yields A of shape (L, M, N*P) equal to Lm[l]^-T Lm[l]^-1 Kmn[l]
\* for each latent process l, for every M, L, N, P >= 1.
C9_UnwhitenedBacksubstitution ==
    (pc = "done" /\ call.fn = "independent_interdomain_conditional" /\ ~call.white)
        => LET M == call.Kmn.shape[1]
               L == call.Kmn.shape[2]
               N == call.Kmn.shape[3]
               P == call.Kmn.shape[4]
               Lm == Cholesky(call.Kmm)
               A0 == TriangularSolve(Lm, Reshape(Transpose(call.Kmn, <<1, 0, 2, 3>>),
                                                 <<L, M, N * P>>), TRUE)
               A == iic_backsub(Lm, Reshape(A0, <<L, M, N, P>>))
           IN  /\ ~IsErr(A)
               /\ A.shape = <<L, M, N * P>>
               /\ A = TriangularSolve(TransposeLast(Lm), A0, FALSE)

\* The current call of a fully correlated conditional with q_sqrt replaced.
FcCallWith(q) ==
    IF call.fn = "fully_correlated_conditional"
    THEN fully_correlated_conditional(call.Kmn, call.Kmm, call.Knn, call.f,
             call.full_cov, call.full_output_cov, q, call.white)
    ELSE fully_correlated_conditional_repeat(call.Kmn, call.Kmm, call.Knn, call.f,
             call.full_cov, call.full_output_cov, q, call.white)

\* q with d added to every entry strictly above the diagonal.
UpperShifted(q, d) ==
    Build(q.shape, LAMBDA idx :
        IF idx[3] > idx[2] THEN RAdd(At(q, idx), RInt(d)) ELSE At(q, idx))
UpperShifts == {-2, 1, 3}

\* C10: with white=True and a rank 3 q_sqrt, a fully correlated conditional
\* gives the same outcome (mean and variance) for inputs that differ only
\* strictly above the diagonal of q_sqrt, namely the outcome for q_sqrt with
\* these entries zero, for every flag pair and every replica.
C10_UpperTriangleIgnored ==
    (pc = "done" /\ call.fn \in FcFns /\ call.white /\ HasQ /\ QRank = 3)
        => /\ out = FcCallWith(BandPartLower(call.q_sqrt))
           /\ \A d \in UpperShifts : out = FcCallWith(UpperShifted(call.q_sqrt, d))

\* C10 witness: a call with two replicas whose q_sqrt is not lower triangular
\* has returned a mean and a variance.
C10_Witness ==
    /\ Returned /\ call.fn = "fully_correlated_conditional_repeat" /\ call.white
    /\ HasQ /\ call.q_sqrt.shape = <<2, 2, 2>>
    /\ At(call.q_sqrt, <<0, 0, 1>>) # RZero /\ At(call.q_sqrt, <<1, 0, 1>>) # RZero
    /\ call.full_cov /\ call.full_output_cov

====
